---- MODULE Spec2Model ----
(***************************************************************************)
(* djumblelog: a journal (tumblelog) of Entry rows, each referring to a    *)
(* source object by (content_type, object_id).  Entries are meant to be    *)
(* written by a post_save listener and removed by a pre_delete listener,   *)
(* and are read by a list view, a template tag and two feeds.              *)
(***************************************************************************)
EXTENDS Integers, Sequences, FiniteSets, TLC

VARIABLES pc, settings, post_save, pre_delete, objects, nextpk, journal,
          clock, procs, world, last

vars == <<pc, settings, post_save, pre_delete, objects, nextpk, journal,
          clock, procs, world, last>>

----------------------------------------------------------------------------
(* Bounds of the model *)

MaxPk == 2
MaxEntries == 3
MaxClock == 1

----------------------------------------------------------------------------
(* The content-type registry (django.contrib.contenttypes) as installed    *)

None == "None"
Absent == "Absent"

ContentTypeTable ==
    "blog.post" :> [app_label |-> "blog", model |-> "post", name |-> "post"] @@
    "blog.link" :> [app_label |-> "blog", model |-> "link", name |-> "link"]

ContentTypes == DOMAIN ContentTypeTable

Pks == 1..MaxPk

Procs == {1, 2}

(* Names bound in the module namespace of managers.py: its two imports and *)
(* the class it defines.                                                   *)
ManagersGlobals == {"models", "ContentType", "EntryManager"}

(* Names bound in the module namespace of feeds.py.                        *)
FeedsGlobals == {"Feed", "FeedDoesNotExist", "ContentType", "Site", "settings",
                 "Entry", "LatestEntries", "LatestEntriesByType"}

(* django.db.models.get_model, called with the parts of model.split:  two  *)
(* or three positional arguments are accepted (the last is seed_cache); an *)
(* unknown (app_label, model_name) yields None.                            *)
GetModelArityOk(parts) == Len(parts) \in {2, 3}

GetModel(parts) ==
    LET hit == {ct \in ContentTypes :
                   /\ ContentTypeTable[ct].app_label = parts[1]
                   /\ ContentTypeTable[ct].model = parts[2]}
    IN IF hit = {} THEN None ELSE CHOOSE ct \in hit : TRUE

(* Index of the first identifier of a configured list on which the         *)
(* registration loop raises (TypeError from get_model), 0 if none.         *)
FirstRaise(cfg) ==
    LET bad == {k \in 1..Len(cfg) : ~GetModelArityOk(cfg[k])}
    IN IF bad = {} THEN 0 ELSE CHOOSE k \in bad : \A j \in bad : k <= j

(* Senders connected by one registration loop.  An absent setting raises   *)
(* AttributeError, which the loop's try/except swallows.                   *)
Connected(cfg) ==
    IF cfg = Absent THEN {}
    ELSE LET n == IF FirstRaise(cfg) = 0 THEN Len(cfg) ELSE FirstRaise(cfg) - 1
         IN {GetModel(cfg[k]) : k \in 1..n}

LoopRaises(cfg) == cfg # Absent /\ FirstRaise(cfg) # 0

(* Signal.send(sender): a receiver connected with sender=None hears every  *)
(* sender.                                                                 *)
Receives(receivers, sender) == sender \in receivers \/ None \in receivers

----------------------------------------------------------------------------
(* EntryManager *)

(* Entry.save: created_at is stamped on a row that has no id yet.          *)
NewEntry(ct, pk, now) == [created_at |-> now, content_type |-> ct, object_id |-> pk]

(* get_for_object with the content_type condition left out                 *)
GetForObjectFilterAnyType(j, ct, pk) == SelectSeq(j, LAMBDA e : e.object_id = pk)

(* get_for_object: filter(content_type=..., object_id=instance.pk)         *)
GetForObject(j, ct, pk) ==
    SelectSeq(j, LAMBDA e : e.content_type = ct /\ e.object_id = pk)

(* QuerySet.delete() on the get_for_object query set                       *)
DeleteMatching(j, ct, pk) ==
    LET doomed == GetForObject(j, ct, pk)
    IN SelectSeq(j, LAMBDA e : \A k \in 1..Len(doomed) : doomed[k] # e)

(* delete_for_object, run without interruption                             *)
DeleteForObject(j, ct, pk) ==
    IF Len(GetForObject(j, ct, pk)) > 0
    THEN [ret |-> "True", journal |-> DeleteMatching(j, ct, pk)]
    ELSE [ret |-> "False", journal |-> j]

(* log: the created flag is accepted and not consulted; the row is made    *)
(* through the global name Entry.                                          *)
Log(j, ct, pk, created, now) ==
    IF "Entry" \in ManagersGlobals
    THEN [ret |-> "ok", journal |-> Append(j, NewEntry(ct, pk, now))]
    ELSE [ret |-> "NameError", journal |-> j]

----------------------------------------------------------------------------
(* Settings the model starts under: the two lists DJUMBLELOG_MODELS and    *)
(* DJUMBLELOG_MODELS_DELETE, each a list of split identifiers or absent.   *)

IdPost == <<"blog", "post">>
IdLink == <<"blog", "link">>
IdNoSuch == <<"blog", "nosuch">>
IdOnePart == <<"blog">>

SettingsChoices ==
    { [create |-> Absent,              delete |-> Absent],
      [create |-> <<IdPost>>,          delete |-> <<IdPost>>],
      [create |-> <<IdPost, IdLink>>,  delete |-> Absent],
      [create |-> <<IdPost>>,          delete |-> <<IdLink>>],
      [create |-> <<IdNoSuch>>,        delete |-> <<IdPost>>],
      [create |-> <<IdPost>>,          delete |-> <<IdPost, IdNoSuch>>],
      [create |-> <<IdPost>>,          delete |-> <<IdOnePart>>] }

Idle == [pc |-> "idle"]
NoWorld == [caps |-> {}, templates |-> {}]
Nothing == [op |-> "none"]

Init ==
    /\ pc = "boot"
    /\ settings \in SettingsChoices
    /\ post_save = {}
    /\ pre_delete = {}
    /\ objects = [ct \in ContentTypes |-> {}]
    /\ nextpk = [ct \in ContentTypes |-> 1]
    /\ journal = <<>>
    /\ clock = 0
    /\ procs = [p \in Procs |-> Idle]
    /\ world = NoWorld
    /\ last = Nothing

(* Import of models.py: the two registration loops at module level.        *)
Boot ==
    /\ pc = "boot"
    /\ post_save' = Connected(settings.create)
    /\ pre_delete' = IF LoopRaises(settings.create) THEN {}
                     ELSE Connected(settings.delete)
    /\ pc' = IF LoopRaises(settings.create) \/ LoopRaises(settings.delete)
             THEN "fatal" ELSE "running"
    /\ UNCHANGED <<settings, objects, nextpk, journal, clock, procs, world, last>>

Tick ==
    /\ pc = "running"
    /\ clock < MaxClock
    /\ clock' = clock + 1
    /\ UNCHANGED <<pc, settings, post_save, pre_delete, objects, nextpk,
                   journal, procs, world, last>>

(* create_entry, as run by post_save.send for the saved instance           *)
CreateEntry(ct, pk, created) ==
    IF Receives(post_save, ct)
    THEN Log(journal, ct, pk, created, clock)
    ELSE [ret |-> "unheard", journal |-> journal]

(* A source object is saved for the first time.  Model.save commits the    *)
(* row before it sends post_save, so the row stays when the listener       *)
(* raises.                                                                 *)
SaveNew(ct) ==
    /\ pc = "running"
    /\ nextpk[ct] <= MaxPk
    /\ Len(journal) < MaxEntries
    /\ objects' = [objects EXCEPT ![ct] = @ \cup {nextpk[ct]}]
    /\ nextpk' = [nextpk EXCEPT ![ct] = @ + 1]
    /\ LET r == CreateEntry(ct, nextpk[ct], TRUE)
       IN /\ journal' = r.journal
          /\ last' = [op |-> "save_new", ct |-> ct, pk |-> nextpk[ct], ret |-> r.ret]
    /\ UNCHANGED <<pc, settings, post_save, pre_delete, clock, procs, world>>

(* An existing source object is saved again.                               *)
SaveExisting(ct, pk) ==
    /\ pc = "running"
    /\ pk \in objects[ct]
    /\ Len(journal) < MaxEntries
    /\ LET r == CreateEntry(ct, pk, FALSE)
       IN /\ journal' = r.journal
          /\ last' = [op |-> "save_existing", ct |-> ct, pk |-> pk, ret |-> r.ret]
    /\ UNCHANGED <<pc, settings, post_save, pre_delete, objects, nextpk,
                   clock, procs, world>>

(* delete_entries, as run by pre_delete.send for the instance              *)
DeleteEntries(ct, pk) ==
    IF Receives(pre_delete, ct)
    THEN DeleteForObject(journal, ct, pk)
    ELSE [ret |-> "unheard", journal |-> journal]

(* A source object is deleted.                                             *)
DeleteInstance(ct, pk) ==
    /\ pc = "running"
    /\ pk \in objects[ct]
    /\ objects' = [objects EXCEPT ![ct] = @ \ {pk}]
    /\ LET r == DeleteEntries(ct, pk)
       IN /\ journal' = r.journal
          /\ last' = [op |-> "delete", ct |-> ct, pk |-> pk, ret |-> r.ret]
    /\ UNCHANGED <<pc, settings, post_save, pre_delete, nextpk, clock, procs, world>>

(* Entry.objects.create(...) called from code that has Entry in scope      *)
(* (the admin, a shell, another app): Manager.create, then Entry.save.     *)
EntryCreate(ct, pk) ==
    /\ pc = "running"
    /\ Len(journal) < MaxEntries
    /\ journal' = Append(journal, NewEntry(ct, pk, clock))
    /\ last' = [op |-> "entry_create", ct |-> ct, pk |-> pk, ret |-> "ok"]
    /\ UNCHANGED <<pc, settings, post_save, pre_delete, objects, nextpk,
                   clock, procs, world>>

(* The write path: start-up, the life of source objects with the two       *)
(* listeners, and entries made for live objects by code outside the        *)
(* listeners.  No step of it reads created_at, and time stands still.      *)
Next ==
    \/ Boot
    \/ \E ct \in ContentTypes : SaveNew(ct)
    \/ \E ct \in ContentTypes, pk \in Pks : SaveExisting(ct, pk)
    \/ \E ct \in ContentTypes, pk \in Pks : DeleteInstance(ct, pk)
    \/ \E ct \in ContentTypes, pk \in Pks : pk \in objects[ct] /\ EntryCreate(ct, pk)

Spec == Init /\ [][Next]_vars

(* Source objects created, saved again and deleted while time passes, the  *)
(* listeners being the only writers of the journal.                        *)
Lifecycle ==
    \/ Boot
    \/ Tick
    \/ \E ct \in ContentTypes : SaveNew(ct)
    \/ \E ct \in ContentTypes, pk \in Pks : SaveExisting(ct, pk)
    \/ \E ct \in ContentTypes, pk \in Pks : DeleteInstance(ct, pk)

SpecLifecycle == Init /\ [][Lifecycle]_vars

----------------------------------------------------------------------------
(* delete_for_object run by concurrent requests.  The body reads the table *)
(* twice: `if entries:` evaluates the query set, entries.delete() runs the *)
(* query again and deletes what it finds then.  Each read or write is one  *)
(* step; other requests may run between the two.                           *)

NoSettings == [create |-> Absent, delete |-> Absent]

(* get_for_object and the truth test of `if entries:`                      *)
DfoTest(p, ct, pk) ==
    /\ pc = "running"
    /\ procs[p].pc \in {"idle", "done"}
    /\ procs' = [procs EXCEPT ![p] =
          IF Len(GetForObject(journal, ct, pk)) > 0
          THEN [pc |-> "truthy", ct |-> ct, pk |-> pk]
          ELSE [pc |-> "done", ct |-> ct, pk |-> pk, ret |-> "False", removed |-> 0]]
    /\ UNCHANGED <<pc, settings, post_save, pre_delete, objects, nextpk,
                   journal, clock, world, last>>

(* entries.delete() and `return True`                                      *)
DfoDelete(p) ==
    /\ pc = "running"
    /\ procs[p].pc = "truthy"
    /\ journal' = DeleteMatching(journal, procs[p].ct, procs[p].pk)
    /\ procs' = [procs EXCEPT ![p] =
          [pc |-> "done", ct |-> procs[p].ct, pk |-> procs[p].pk, ret |-> "True",
           removed |-> Len(journal) - Len(journal')]]
    /\ UNCHANGED <<pc, settings, post_save, pre_delete, objects, nextpk,
                   clock, world, last>>

InitConc == Init /\ settings = NoSettings

NextConc ==
    \/ Boot
    \/ \E ct \in ContentTypes, pk \in Pks : EntryCreate(ct, pk)
    \/ \E p \in Procs, ct \in ContentTypes, pk \in Pks : DfoTest(p, ct, pk)
    \/ \E p \in Procs : DfoDelete(p)

SpecConc == InitConc /\ [][NextConc]_vars

----------------------------------------------------------------------------
(* Query sets *)

LatestLimit == 10
ByTypeLimit == 10
DefaultNum == 10
DefaultPaginateBy == 15

(* The order_by arguments the model passes, as (field, descending).        *)
OrderTable ==
    "-created_at" :> [field |-> "created_at", desc |-> TRUE] @@
    "created_at"  :> [field |-> "created_at", desc |-> FALSE] @@
    "-object_id"  :> [field |-> "object_id", desc |-> TRUE]

OrderBys == DOMAIN OrderTable

KeyOf(e, ob) ==
    IF OrderTable[ob].field = "created_at" THEN e.created_at ELSE e.object_id

(* a sorts strictly before b under ORDER BY ob                             *)
Precedes(a, b, ob) ==
    IF OrderTable[ob].desc THEN KeyOf(a, ob) > KeyOf(b, ob)
    ELSE KeyOf(a, ob) < KeyOf(b, ob)

RECURSIVE Insert(_, _, _)
Insert(e, s, ob) ==
    IF s = <<>> THEN <<e>>
    ELSE IF Precedes(e, Head(s), ob) THEN <<e>> \o s
    ELSE <<Head(s)>> \o Insert(e, Tail(s), ob)

(* QuerySet.order_by(ob): rows that tie on the key come in row-id order.   *)
RECURSIVE OrderBy(_, _)
OrderBy(s, ob) ==
    IF s = <<>> THEN <<>>
    ELSE Insert(s[Len(s)], OrderBy(SubSeq(s, 1, Len(s) - 1), ob), ob)

(* Meta.ordering without the minus sign                                    *)
MetaOrderingAscending == "created_at"

(* Entry.Meta.ordering                                                     *)
MetaOrdering == "-created_at"

(* Entry.objects.all(), as evaluated                                       *)
All(j) == OrderBy(j, MetaOrdering)

(* Entry.objects.filter(content_type=ct), as evaluated                     *)
FilterType(j, ct) == OrderBy(SelectSeq(j, LAMBDA e : e.content_type = ct), MetaOrdering)

(* qs[:n]                                                                  *)
Take(s, n) == SubSeq(s, 1, IF Len(s) < n THEN Len(s) ELSE n)

(* qs[a:b]                                                                 *)
Slice(s, a, b) == SubSeq(s, a + 1, IF Len(s) < b THEN Len(s) ELSE b)

(* An outcome that is no query set: an exception, or "returns None".       *)
Raise(exc) == [exc |-> exc, items |-> <<>>]
Return(items) == [exc |-> "none", items |-> items]

(* get_for_model: a content type that is not found raises inside the try;  *)
(* matching it evaluates the except clause's tuple, which names Entry.     *)
GetForModel(j, app_label, model, ob) ==
    LET hit == {ct \in ContentTypes :
                   /\ ContentTypeTable[ct].app_label = app_label
                   /\ ContentTypeTable[ct].model = model}
    IN IF hit # {}
       THEN LET ct == CHOOSE c \in hit : TRUE
            IN Return(OrderBy(SelectSeq(j, LAMBDA e : e.content_type = ct), ob))
       ELSE IF "Entry" \in ManagersGlobals THEN Raise("returns None")
            ELSE Raise("NameError")

----------------------------------------------------------------------------
(* Feeds, as built by django.contrib.syndication's Feed.get_feed: it calls *)
(* get_object(bits), turning ObjectDoesNotExist into FeedDoesNotExist,     *)
(* then link, title, description and items.                                *)

(* LatestEntries.items                                                     *)
LatestItems(j) == Return(Take(All(j), LatestLimit))

(* QuerySet.get() on the query set get_object returned                     *)
QsGet(n) ==
    IF n = 1 THEN "none"
    ELSE IF n = 0 THEN "DoesNotExist" ELSE "MultipleObjectsReturned"

(* LatestEntriesByType.get_object                                          *)
GetObject(j, bits) ==
    IF Len(bits) # 1
    THEN IF "ObjectDoesNotExist" \in FeedsGlobals
         THEN Raise("FeedDoesNotExist") ELSE Raise("NameError")
    ELSE LET hit == {ct \in ContentTypes : ContentTypeTable[ct].name = bits[1]}
         IN IF hit = {} THEN Raise("FeedDoesNotExist")
            ELSE IF Cardinality(hit) > 1 THEN Raise("MultipleObjectsReturned")
            ELSE Return(FilterType(j, CHOOSE c \in hit : TRUE))

(* get_object, link, title, description, items in turn                     *)
ByTypeFeed(j, bits) ==
    LET obj == GetObject(j, bits)
    IN IF obj.exc # "none" THEN obj
       ELSE IF Len(obj.items) = 0 THEN Raise("FeedDoesNotExist")
       ELSE IF QsGet(Len(obj.items)) # "none" THEN Raise(QsGet(Len(obj.items)))
       ELSE Return(Take(obj.items, ByTypeLimit))

----------------------------------------------------------------------------
(* The list view and the template tag *)

(* views.index over list_detail.object_list: page n of the query set, an   *)
(* empty first page allowed, any other page outside the range a 404.       *)
Index(j, model_name, paginate_by, page) ==
    LET qs == IF model_name # None THEN FilterType(j, model_name) ELSE All(j)
        pages == IF Len(qs) = 0 THEN 1
                 ELSE (Len(qs) + paginate_by - 1) \div paginate_by
    IN IF page < 1 \/ page > pages THEN Raise("Http404")
       ELSE Return(Slice(qs, (page - 1) * paginate_by, page * paginate_by))

(* show_djumblelog                                                         *)
ShowDjumblelog(j, num) == Return(Take(All(j), num))

----------------------------------------------------------------------------
(* Read requests against a journal built by Entry.objects.create           *)

ModelNames == {"post", "link", "nosuch"}
ReadPks == {1, 2}
BitsChoices == {<<>>, <<"post">>, <<"link">>, <<"nosuch">>, <<"post", "link">>}
PaginateChoices == {2, DefaultPaginateBy}
NumChoices == {1, 2, DefaultNum}

Answer(op, arg, r) ==
    /\ pc = "running"
    /\ last' = [op |-> op, arg |-> arg, exc |-> r.exc, items |-> r.items]
    /\ UNCHANGED <<pc, settings, post_save, pre_delete, objects, nextpk,
                   journal, clock, procs, world>>

GetForModelCall(model, ob) ==
    Answer("get_for_model", <<model, ob>>, GetForModel(journal, "blog", model, ob))

LatestFeedRequest == Answer("feed_latest", <<>>, LatestItems(journal))

ByTypeFeedRequest(bits) == Answer("feed_type", bits, ByTypeFeed(journal, bits))

IndexRequest(model_name, paginate_by, page) ==
    Answer("index", <<model_name, paginate_by, page>>,
           Index(journal, model_name, paginate_by, page))

ShowDjumblelogCall(num) == Answer("show_djumblelog", <<num>>, ShowDjumblelog(journal, num))

InitRead == Init /\ settings = NoSettings

NextRead ==
    \/ Boot
    \/ Tick
    \/ \E ct \in ContentTypes, pk \in ReadPks : EntryCreate(ct, pk)
    \/ \E model \in ModelNames, ob \in OrderBys : GetForModelCall(model, ob)
    \/ LatestFeedRequest
    \/ \E bits \in BitsChoices : ByTypeFeedRequest(bits)
    \/ \E m \in ContentTypes \cup {None}, pb \in PaginateChoices, page \in 1..2 :
          IndexRequest(m, pb, page)
    \/ \E num \in NumChoices : ShowDjumblelogCall(num)

SpecRead == InitRead /\ [][NextRead]_vars

----------------------------------------------------------------------------
(* Entry.title, Entry.description, Entry.render.  world.caps[ct] holds the *)
(* methods among get_title, get_description, render that the source model  *)
(* defines; world.templates holds the templates the loader can find.       *)

Caps == {"get_title", "get_description", "render"}

(* "%s/%s_<suffix>.html" % (content_type.app_label, content_type.name)     *)
TemplateName(ct, suffix) ==
    <<ContentTypeTable[ct].app_label, ContentTypeTable[ct].name, suffix>>

DefaultRenderTemplate == <<"djumblelog", "render">>

TypeTemplates == {TemplateName(ct, suffix) :
                     ct \in ContentTypes, suffix \in {"title", "description", "render"}}

MethodOut(m) == [via |-> "method", name |-> <<m>>, ctx |-> <<>>]
TemplateOut(name, ctx) == [via |-> "template", name |-> name, ctx |-> ctx]
StrOut == [via |-> "str", name |-> <<>>, ctx |-> <<>>]

(* _get_title with the template tried before the method                    *)
GetTitleTemplateFirst(w, ct) ==
    IF TemplateName(ct, "title") \in w.templates
    THEN TemplateOut(TemplateName(ct, "title"), <<"obj">>)
    ELSE IF "get_title" \in w.caps[ct] THEN MethodOut("get_title")
    ELSE StrOut

(* Entry._get_title                                                        *)
GetTitle(w, ct) ==
    IF "get_title" \in w.caps[ct] THEN MethodOut("get_title")
    ELSE IF TemplateName(ct, "title") \in w.templates
    THEN TemplateOut(TemplateName(ct, "title"), <<"obj">>)
    ELSE StrOut

(* Entry._get_description                                                  *)
GetDescription(w, ct) ==
    IF "get_description" \in w.caps[ct] THEN MethodOut("get_description")
    ELSE IF TemplateName(ct, "description") \in w.templates
    THEN TemplateOut(TemplateName(ct, "description"), <<"obj">>)
    ELSE StrOut

(* Entry.render: the context of either template carries the resolved title *)
(* and description.                                                        *)
Render(w, ct) ==
    LET ctx == <<"obj", GetTitle(w, ct), GetDescription(w, ct)>>
    IN IF "render" \in w.caps[ct] THEN MethodOut("render")
       ELSE IF TemplateName(ct, "render") \in w.templates
       THEN TemplateOut(TemplateName(ct, "render"), ctx)
       ELSE TemplateOut(DefaultRenderTemplate, ctx)

Resolved(op, ct, out) ==
    /\ pc = "running"
    /\ last' = [op |-> op, ct |-> ct, out |-> out]
    /\ UNCHANGED <<pc, settings, post_save, pre_delete, objects, nextpk,
                   journal, clock, procs, world>>

TitleRead(ct) == Resolved("title", ct, GetTitle(world, ct))
DescriptionRead(ct) == Resolved("description", ct, GetDescription(world, ct))
RenderCall(ct) == Resolved("render", ct, Render(world, ct))

InitRender ==
    /\ pc = "boot"
    /\ settings = NoSettings
    /\ post_save = {}
    /\ pre_delete = {}
    /\ objects = [ct \in ContentTypes |-> {}]
    /\ nextpk = [ct \in ContentTypes |-> 1]
    /\ journal = <<>>
    /\ clock = 0
    /\ procs = [p \in Procs |-> Idle]
    /\ world \in [caps : [ContentTypes -> SUBSET Caps],
                  templates : {t \cup {DefaultRenderTemplate} : t \in SUBSET TypeTemplates}]
    /\ last = Nothing

NextRender ==
    \/ Boot
    \/ \E ct \in ContentTypes : TitleRead(ct)
    \/ \E ct \in ContentTypes : DescriptionRead(ct)
    \/ \E ct \in ContentTypes : RenderCall(ct)

SpecRender == InitRender /\ [][NextRender]_vars

----------------------------------------------------------------------------
(* What the settings name, read off the registry independently of the      *)
(* registration loops.                                                     *)

IdentifierOf(ct) == <<ContentTypeTable[ct].app_label, ContentTypeTable[ct].model>>

Named(cfg) ==
    IF cfg = Absent THEN {}
    ELSE {ct \in ContentTypes : \E k \in 1..Len(cfg) : cfg[k] = IdentifierOf(ct)}

Unresolvable(cfg) ==
    /\ cfg # Absent
    /\ \E k \in 1..Len(cfg) : \A ct \in ContentTypes : cfg[k] # IdentifierOf(ct)

Refers(e, ct, pk) == e.content_type = ct /\ e.object_id = pk

CountFor(j, ct, pk) == Len(SelectSeq(j, LAMBDA e : Refers(e, ct, pk)))

----------------------------------------------------------------------------
(* C1: for every type named in the creation-tracking list, the creation of *)
(* instance (T, i) appends exactly one entry with source_type T, source_id *)
(* i and created_at the time of the event, and leaves every earlier entry  *)
(* in place.                                                               *)
C1_CreateAddsOneEntry ==
    [][\A ct \in Named(settings.create) :
          (pc = "running" /\ nextpk'[ct] = nextpk[ct] + 1)
          => journal' = Append(journal, [created_at |-> clock,
                                         content_type |-> ct,
                                         object_id |-> nextpk[ct]])]_vars

(* C2: after any sequence of creations and re-saves of instances of a      *)
(* creation-tracked type, each instance is referenced by exactly one       *)
(* entry (one per creation event, none per update).                        *)
C2_OneEntryPerCreation ==
    pc = "running" =>
        \A ct \in Named(settings.create) : \A pk \in objects[ct] :
            CountFor(journal, ct, pk) = 1

(* C3: for every type named in the deletion-tracking list, deleting the    *)
(* instance (T, i) removes every entry referring to (T, i) and no entry    *)
(* referring to anything else.                                             *)
C3_DeleteRemovesExactlyMatching ==
    [][\A ct \in Named(settings.delete) : \A pk \in Pks :
          (pc = "running" /\ pk \in objects[ct] /\ pk \notin objects'[ct])
          => journal' = SelectSeq(journal, LAMBDA e : ~Refers(e, ct, pk))]_vars

(* C3 witness: a deletion-tracked instance has just been deleted, entries  *)
(* of it were removed, and entries of the same type with another id and of *)
(* another type with the same id are still in the journal.                 *)
C3_Witness ==
    /\ last.op = "delete"
    /\ last.ct \in Named(settings.delete)
    /\ last.ret = "True"
    /\ \E k \in 1..Len(journal) :
          journal[k].content_type = last.ct /\ journal[k].object_id # last.pk
    /\ \E k \in 1..Len(journal) :
          journal[k].content_type # last.ct /\ journal[k].object_id = last.pk

(* C4: an identifier that does not resolve, in either list, stops start-up *)
(* and leaves no listener that hears types outside the lists; absent lists *)
(* alone are skipped.                                                      *)
C4_UnresolvableIsFatal ==
    /\ (pc # "boot" /\ (Unresolvable(settings.create) \/ Unresolvable(settings.delete)))
          => (pc = "fatal" /\ None \notin post_save /\ None \notin pre_delete)
    /\ (pc # "boot" /\ settings.create = Absent /\ settings.delete = Absent)
          => (pc = "running" /\ post_save = {} /\ pre_delete = {})

(* C10: with each handler run to completion, every entry of a type that is *)
(* both creation- and deletion-tracked refers to a live instance, and the  *)
(* entries of a deleted instance of a type that is creation-tracked only   *)
(* remain in the journal.                                                  *)
C10_NoOrphans ==
    pc = "running" =>
        /\ \A ct \in Named(settings.create) \cap Named(settings.delete) :
              \A k \in 1..Len(journal) :
                  journal[k].content_type = ct => journal[k].object_id \in objects[ct]
        /\ \A ct \in Named(settings.create) \ Named(settings.delete) :
              \A pk \in 1..(nextpk[ct] - 1) :
                  pk \notin objects[ct] => CountFor(journal, ct, pk) >= 1

(* C9: delete_for_object reports True exactly when it removed at least one *)
(* entry; a second deletion for the same source, run after or interleaved  *)
(* with the first, removes nothing and reports False.                      *)
C9_ReportsWhetherRemoved ==
    \A p \in Procs :
        procs[p].pc = "done" => (procs[p].ret = "True" <=> procs[p].removed > 0)

NonIncreasing(items) ==
    \A k \in 1..(Len(items) - 1) : items[k].created_at >= items[k + 1].created_at

OfType(j, ct) == SelectSeq(j, LAMBDA e : e.content_type = ct)

NamedBy(segment) == {ct \in ContentTypes : ContentTypeTable[ct].name = segment}

Smaller(a, b) == IF a < b THEN a ELSE b

(* C5: a by-type feed request with no type segment, with more than one, or *)
(* with a segment the registry cannot resolve ends in FeedDoesNotExist and *)
(* in nothing else.                                                        *)
C5_BadSegmentIsFeedNotFound ==
    (/\ last.op = "feed_type"
     /\ (Len(last.arg) # 1 \/ NamedBy(last.arg[1]) = {}))
    => (last.exc = "FeedDoesNotExist" /\ last.items = <<>>)

(* C6: for a resolvable type with n >= 1 entries the by-type feed is built *)
(* and lists the min(n, 10) most recent entries of that type, newest       *)
(* first, and nothing of another type.                                     *)
C6_ByTypeFeedLists ==
    (/\ last.op = "feed_type"
     /\ Len(last.arg) = 1
     /\ NamedBy(last.arg[1]) # {}
     /\ \A ct \in NamedBy(last.arg[1]) : Len(OfType(journal, ct)) >= 1)
    => \A ct \in NamedBy(last.arg[1]) :
          LET mine == OfType(journal, ct)
          IN /\ last.exc = "none"
             /\ Len(last.items) = Smaller(Len(mine), 10)
             /\ NonIncreasing(last.items)
             /\ \A k \in 1..Len(last.items) : last.items[k].content_type = ct
             /\ \A k \in 1..Len(last.items) :
                   Cardinality({i \in 1..Len(mine) :
                                   mine[i].created_at > last.items[k].created_at}) < k

ListingOps == {"get_for_model", "feed_latest", "feed_type", "index", "show_djumblelog"}

Listed == last.op \in ListingOps /\ last.exc = "none"

(* C8: every sequence a listing operation returns is non-increasing in     *)
(* created_at, whatever order_by the caller of get_for_model passes.       *)
C8_EveryListingNonIncreasing == Listed => NonIncreasing(last.items)

(* C8, amended: every sequence returned by the list view, the template     *)
(* tag, the two feeds, and get_for_model called with its default order_by  *)
(* is non-increasing in created_at.                                        *)
C8_DefaultListingNonIncreasing ==
    (Listed /\ (last.op = "get_for_model" => last.arg[2] = "-created_at"))
    => NonIncreasing(last.items)

(* C8 witness: the list view returned two entries of different times, the  *)
(* newer one first.                                                        *)
C8_Witness ==
    /\ last.op = "index"
    /\ last.exc = "none"
    /\ Len(last.items) >= 2
    /\ last.items[1].created_at > last.items[2].created_at

OverrideOf(field) == IF field = "title" THEN "get_title"
                     ELSE IF field = "description" THEN "get_description"
                     ELSE "render"

FieldTemplate(ct, field) ==
    <<ContentTypeTable[ct].app_label, ContentTypeTable[ct].name, field>>

(* The strategy the priority rule picks for one field, from that field's   *)
(* override and that field's template alone.                               *)
Strategy(field, ct) ==
    IF OverrideOf(field) \in world.caps[ct] THEN "override"
    ELSE IF FieldTemplate(ct, field) \in world.templates THEN "type template"
    ELSE "default"

====
